---------------------------- MODULE Spec2Model ----------------------------
(***************************************************************************)
(* The draft slice of the live-draft client: the Redux state container    *)
(* (board, teams, available players, pick index, selection, status), the  *)
(* processpick reducer fed by the socket's draft_update events, the       *)
(* snapshot thunk started by the App effect, and the player-history thunk *)
(* started by a click in the player pool.                                  *)
(***************************************************************************)
EXTENDS Integers, Sequences, FiniteSets, TLC

(***************************************************************************)
(* Bounds of the model.                                                    *)
(***************************************************************************)
\* draft_update events delivered in one session
MaxDelivered == 3
\* player-history requests started in one session; in a session in which
\* players are selected, the draft_update events count against it as well
MaxSelections == 2
\* pick numbers an event may carry (the boards below have 2 or 3 slots)
MaxPickNumber == 3

(***************************************************************************)
(* JavaScript values.  null and undefined are records of their own so that *)
(* they compare (unequal) with every other value.                          *)
(***************************************************************************)
NULL == [null |-> TRUE]
UNDEFINED == [undefined |-> TRUE]

\* JS truthiness of an object-or-null/undefined value
Truthy(v) == v # NULL /\ v # UNDEFINED

(***************************************************************************)
(* The data the transport collaborators deliver.                           *)
(***************************************************************************)
P1 == [player_id |-> "p1", position |-> "QB"]
P2 == [player_id |-> "p2", position |-> "RB"]
P3 == [player_id |-> "p3", position |-> "QB"]
Players == {P1, P2, P3}
PlayerIds == {p.player_id : p \in Players}

\* push event "pick made": {pick_number, player}
PickEvents == [pick_number : 1..MaxPickNumber, player : Players]

Team(roster) == [roster |-> roster]
EmptyRoster == [pos \in {} |-> <<>>]
Slot(n, t, p) == [pick_number |-> n, team_id |-> t, player |-> p]

\* snapshot fetch results: {board, teams, available_players, current_pick_index, total_picks}
\* a fresh draft
SnapFresh ==
  [board |-> << Slot(1, "T1", NULL), Slot(2, "T2", NULL) >>,
   teams |-> [t \in {"T1", "T2"} |-> Team(EmptyRoster)],
   available_players |-> << P1, P2, P3 >>,
   current_pick_index |-> 0,
   total_picks |-> 2]
\* a draft joined after its first pick; team T1 owns slots 1 and 3
SnapStarted ==
  [board |-> << Slot(1, "T1", P1), Slot(2, "T2", NULL), Slot(3, "T1", NULL) >>,
   teams |-> [t \in {"T1", "T2"} |->
               IF t = "T1" THEN Team([pos \in {"QB"} |-> << P1 >>]) ELSE Team(EmptyRoster)],
   available_players |-> << P2, P3 >>,
   current_pick_index |-> 1,
   total_picks |-> 3]
\* total_picks disagrees with the board length
SnapShortBoard == [SnapFresh EXCEPT !.total_picks = 3]
\* slot 2 belongs to a team the payload does not list
SnapUnknownTeam ==
  [SnapFresh EXCEPT !.board = << Slot(1, "T1", NULL), Slot(2, "T9", NULL) >>]
Snapshots == {SnapFresh, SnapStarted, SnapShortBoard, SnapUnknownTeam}

\* messages of the errors a failed snapshot fetch carries
ErrorMessages == {"Network Error", "Request failed with status code 500"}

\* player-history fetch result for a player id
HistoryOf(playerid) == [history_of |-> playerid]
\* what rejectwithvalue hands over: the response body of the failed request
ErrorData == {[detail |-> "Player not found"]}
\* the errors apiservice.fetchplayerhistory rejects with: a failed request
\* that got a response, and a transport failure that got none
HistoryErrors ==
  {[message |-> "Request failed with status code 404", response |-> [data |-> d]] :
     d \in ErrorData}
  \cup {[message |-> "Network Error", response |-> UNDEFINED]}

VARIABLES
  board, teams, availableplayers, currentpickindex, totalpicks,
  selectedplayerdetails, status, error,
  effectstatus,      \* draftStatus of the render the App effect last ran for
  connected,         \* the socket has its draft_update handler installed
  snapshotpending,   \* the fetchinitialstate thunk is awaiting its response
  historyrequests,   \* the fetchplayerhistory thunks awaiting their response
  requested,         \* number of fetchplayerhistory thunks started
  delivered,         \* number of draft_update events received
  selecting,         \* argument of the latest selection request, NULL once cleared
  clearedupto,       \* number of requests that had been started at the latest clear
  lastaction         \* type of the action last dispatched, and whether its reducer threw

draft == <<board, teams, availableplayers, currentpickindex, totalpicks,
           selectedplayerdetails, status, error>>
vars == <<board, teams, availableplayers, currentpickindex, totalpicks,
          selectedplayerdetails, status, error, effectstatus, connected,
          snapshotpending, historyrequests, requested, delivered, selecting,
          clearedupto, lastaction>>

\* initialState
Init ==
  /\ board = <<>>
  /\ teams = [t \in {} |-> Team(EmptyRoster)]
  /\ availableplayers = <<>>
  /\ currentpickindex = 0
  /\ totalpicks = 0
  /\ selectedplayerdetails = NULL
  /\ status = "idle"
  /\ error = NULL
  /\ effectstatus = "unmounted"
  /\ connected = FALSE
  /\ snapshotpending = FALSE
  /\ historyrequests = {}
  /\ requested = 0
  /\ delivered = 0
  /\ selecting = NULL
  /\ clearedupto = 0
  /\ lastaction = [type |-> "@@INIT", threw |-> FALSE]


\* the slice state as one value, the way a reducer receives it
State ==
  [board |-> board, teams |-> teams, availableplayers |-> availableplayers,
   currentpickindex |-> currentpickindex, totalpicks |-> totalpicks,
   selectedplayerdetails |-> selectedplayerdetails, status |-> status,
   error |-> error]

\* the store commits the state a reducer returned
Commit(st) ==
  /\ board' = st.board
  /\ teams' = st.teams
  /\ availableplayers' = st.availableplayers
  /\ currentpickindex' = st.currentpickindex
  /\ totalpicks' = st.totalpicks
  /\ selectedplayerdetails' = st.selectedplayerdetails
  /\ status' = st.status
  /\ error' = st.error

(***************************************************************************)
(* processpick                                                             *)
(***************************************************************************)
\* Array.prototype.findIndex over the board: the first slot with that
\* pick_number (1-based here), -1 when there is none
findindex(b, pick_number) ==
  IF \E i \in 1..Len(b) : b[i].pick_number = pick_number
    THEN CHOOSE i \in 1..Len(b) :
           /\ b[i].pick_number = pick_number
           /\ \A j \in 1..(i - 1) : b[j].pick_number # pick_number
    ELSE -1

\* availableplayers.filter(p => p.player_id !== player.player_id)
RECURSIVE filterout(_, _)
filterout(pool, playerid) ==
  IF pool = <<>> THEN <<>>
  ELSE IF Head(pool).player_id # playerid
    THEN << Head(pool) >> \o filterout(Tail(pool), playerid)
    ELSE filterout(Tail(pool), playerid)

\* the roster update assigning a fresh array on every pick
\* (team.roster[position] = [player])
rosterpush_replace(team, player) ==
  [roster |->
     [pos \in DOMAIN team.roster \cup {player.position} |->
        IF pos = player.position THEN << player >> ELSE team.roster[pos]]]

\* if (!team.roster[position]) team.roster[position] = []; team.roster[position].push(player)
rosterpush(team, player) ==
  [roster |->
     [pos \in DOMAIN team.roster \cup {player.position} |->
        IF pos = player.position
          THEN Append(IF pos \in DOMAIN team.roster THEN team.roster[pos] ELSE <<>>,
                      player)
          ELSE team.roster[pos]]]

\* processpick reading the slot with optional chaining
\* (state.board[pickindexonboard]?.team_id): nothing throws, and an event
\* without a slot still filters the pool and sets the pick index
processpick_nothrow(state, payload) ==
  LET pick_number == payload.pick_number
      player == payload.player
      pickindexonboard == findindex(state.board, pick_number)
      board1 == IF pickindexonboard # -1
                  THEN [state.board EXCEPT ![pickindexonboard].player = player]
                  ELSE state.board
      pool1 == filterout(state.availableplayers, player.player_id)
      teamid == IF pickindexonboard # -1 THEN board1[pickindexonboard].team_id
                ELSE "undefined"
      teams1 == IF teamid \in DOMAIN state.teams
                  THEN [state.teams EXCEPT
                          ![teamid] = rosterpush(state.teams[teamid], player)]
                  ELSE state.teams
  IN [threw |-> FALSE,
      state |-> [state EXCEPT !.board = board1,
                              !.availableplayers = pool1,
                              !.teams = teams1,
                              !.currentpickindex = pick_number]]

\* processpick handling a missing slot by marking the session failed
processpick_failsession(state, payload) ==
  LET pick_number == payload.pick_number
      player == payload.player
      pickindexonboard == findindex(state.board, pick_number)
  IN IF pickindexonboard = -1
       THEN [threw |-> FALSE,
             state |-> [state EXCEPT !.status = "failed",
                                     !.error = [message |-> "unknown pick"]]]
       ELSE
         LET teamid == state.board[pickindexonboard].team_id
             teams1 == IF teamid \in DOMAIN state.teams
                         THEN [state.teams EXCEPT
                                 ![teamid] = rosterpush(state.teams[teamid], player)]
                         ELSE state.teams
         IN [threw |-> FALSE,
             state |-> [state EXCEPT
                          !.board[pickindexonboard].player = player,
                          !.availableplayers =
                             filterout(state.availableplayers, player.player_id),
                          !.teams = teams1,
                          !.currentpickindex = pick_number]]

\* processpick without the if (team) test: team.roster of an unknown team
\* throws and nothing is committed
processpick_noteamcheck(state, payload) ==
  LET pick_number == payload.pick_number
      player == payload.player
      pickindexonboard == findindex(state.board, pick_number)
  IN IF pickindexonboard = -1
          \/ state.board[pickindexonboard].team_id \notin DOMAIN state.teams
       THEN [threw |-> TRUE, state |-> state]
       ELSE
         LET teamid == state.board[pickindexonboard].team_id
         IN [threw |-> FALSE,
             state |-> [state EXCEPT
                          !.board[pickindexonboard].player = player,
                          !.availableplayers =
                             filterout(state.availableplayers, player.player_id),
                          !.teams[teamid] = rosterpush(state.teams[teamid], player),
                          !.currentpickindex = pick_number]]

\* The reducer.  Its result is the next state, or threw = TRUE when reading
\* team_id of state.board[-1] raises a TypeError: the draft is discarded and
\* the store keeps the state it had.
processpick(state, payload) ==
  LET pick_number == payload.pick_number
      player == payload.player
      pickindexonboard == findindex(state.board, pick_number)
  IN IF pickindexonboard = -1
       THEN [threw |-> TRUE, state |-> state]
       ELSE
         LET board1 == [state.board EXCEPT ![pickindexonboard].player = player]
             pool1 == filterout(state.availableplayers, player.player_id)
             teamid == board1[pickindexonboard].team_id
             teams1 == IF teamid \in DOMAIN state.teams
                         THEN [state.teams EXCEPT
                                 ![teamid] = rosterpush(state.teams[teamid], player)]
                         ELSE state.teams
         IN [threw |-> FALSE,
             state |-> [state EXCEPT !.board = board1,
                                     !.availableplayers = pool1,
                                     !.teams = teams1,
                                     !.currentpickindex = pick_number]]

\* clearselectedplayer
clearselectedplayer(state) == [state EXCEPT !.selectedplayerdetails = NULL]

(***************************************************************************)
(* extraReducers                                                           *)
(***************************************************************************)
fetchinitialstate_pending(state) == [state EXCEPT !.status = "loading"]

fetchinitialstate_fulfilled(state, payload) ==
  [state EXCEPT !.status = "succeeded",
                !.board = payload.board,
                !.teams = payload.teams,
                !.availableplayers = payload.available_players,
                !.currentpickindex = payload.current_pick_index,
                !.totalpicks = payload.total_picks]

\* the rejected case setting the status and dropping the message
fetchinitialstate_rejected_nomessage(state, message) ==
  [state EXCEPT !.status = "failed"]

fetchinitialstate_rejected(state, message) ==
  [state EXCEPT !.status = "failed", !.error = [message |-> message]]

\* availableplayers.find(p => p.player_id === arg): the first match, or undefined
find(pool, playerid) ==
  IF \E i \in 1..Len(pool) : pool[i].player_id = playerid
    THEN pool[CHOOSE i \in 1..Len(pool) :
                /\ pool[i].player_id = playerid
                /\ \A j \in 1..(i - 1) : pool[j].player_id # playerid]
    ELSE UNDEFINED

fetchplayerhistory_pending(state, arg) ==
  [state EXCEPT !.selectedplayerdetails =
     [player |-> find(state.availableplayers, arg), history |-> NULL,
      loading |-> TRUE, error |-> UNDEFINED]]

\* the fulfilled case attaching the history and leaving loading set
fetchplayerhistory_fulfilled_stillloading(state, payload) ==
  IF Truthy(state.selectedplayerdetails)
    THEN [state EXCEPT !.selectedplayerdetails.history = payload]
    ELSE state

fetchplayerhistory_fulfilled(state, payload) ==
  IF Truthy(state.selectedplayerdetails)
    THEN [state EXCEPT !.selectedplayerdetails.history = payload,
                       !.selectedplayerdetails.loading = FALSE]
    ELSE state

\* the rejected case written after fetchinitialstate.rejected: it marks the
\* session failed
fetchplayerhistory_rejected_failsession(state, payload) ==
  IF Truthy(state.selectedplayerdetails)
    THEN [state EXCEPT !.selectedplayerdetails.loading = FALSE,
                       !.selectedplayerdetails.error = payload,
                       !.status = "failed",
                       !.error = payload]
    ELSE state

fetchplayerhistory_rejected(state, payload) ==
  IF Truthy(state.selectedplayerdetails)
    THEN [state EXCEPT !.selectedplayerdetails.loading = FALSE,
                       !.selectedplayerdetails.error = payload]
    ELSE state

(***************************************************************************)
(* The App effect, the socket and the thunks                               *)
(***************************************************************************)
Action(type, threw) == [type |-> type, threw |-> threw]

\* the guard written as "not already loading"
shouldfetch_notloading(draftStatus) == draftStatus # "loading"

\* if (draftStatus === 'idle') dispatch(fetchInitialState())
shouldfetch(draftStatus) == draftStatus = "idle"

\* useEffect(..., [dispatch, draftStatus]): runs on mount and after every
\* render in which draftStatus changed; connects the socket, then starts the
\* snapshot fetch when the rendered status is idle.
AppEffect ==
  /\ effectstatus # status
  /\ effectstatus' = status
  /\ connected' = TRUE
  /\ IF shouldfetch(status)
       THEN /\ Commit(fetchinitialstate_pending(State))
            /\ snapshotpending' = TRUE
            /\ lastaction' = Action("draft/fetchinitialstate/pending", FALSE)
       ELSE UNCHANGED <<draft, snapshotpending, lastaction>>
  /\ UNCHANGED <<historyrequests, requested, delivered, selecting, clearedupto>>

\* apiservice.fetchdraftstate() resolved with a payload
SnapshotFulfilled(payload) ==
  /\ snapshotpending
  /\ snapshotpending' = FALSE
  /\ Commit(fetchinitialstate_fulfilled(State, payload))
  /\ lastaction' = Action("draft/fetchinitialstate/fulfilled", FALSE)
  /\ UNCHANGED <<effectstatus, connected, historyrequests, requested, delivered,
                 selecting, clearedupto>>

\* apiservice.fetchdraftstate() rejected
SnapshotRejected(message) ==
  /\ snapshotpending
  /\ snapshotpending' = FALSE
  /\ Commit(fetchinitialstate_rejected(State, message))
  /\ lastaction' = Action("draft/fetchinitialstate/rejected", FALSE)
  /\ UNCHANGED <<effectstatus, connected, historyrequests, requested, delivered,
                 selecting, clearedupto>>

\* socket.on('draft_update', data => dispatch(processpick(data)))
DraftUpdate(data, limit) ==
  /\ connected
  /\ delivered < limit
  /\ delivered' = delivered + 1
  /\ LET r == processpick(State, data)
     IN /\ Commit(r.state)
        /\ lastaction' = Action("draft/processpick", r.threw)
  /\ UNCHANGED <<effectstatus, connected, snapshotpending, historyrequests,
                 requested, selecting, clearedupto>>

\* handleplayerclick(playerid): dispatch(fetchplayerhistory(playerid))
Select(playerid) ==
  /\ requested + delivered < MaxSelections
  /\ requested' = requested + 1
  /\ historyrequests' = historyrequests \cup {[requestid |-> requested + 1, arg |-> playerid]}
  /\ Commit(fetchplayerhistory_pending(State, playerid))
  /\ lastaction' = Action("draft/fetchplayerhistory/pending", FALSE)
  /\ selecting' = [arg |-> playerid]
  /\ UNCHANGED <<effectstatus, connected, snapshotpending, delivered, clearedupto>>

\* apiservice.fetchplayerhistory(arg) resolved
HistoryFulfilled(req) ==
  /\ req \in historyrequests
  /\ historyrequests' = historyrequests \ {req}
  /\ Commit(fetchplayerhistory_fulfilled(State, HistoryOf(req.arg)))
  /\ lastaction' = Action("draft/fetchplayerhistory/fulfilled", FALSE)
  /\ UNCHANGED <<effectstatus, connected, snapshotpending, requested, delivered,
                 selecting, clearedupto>>

\* catch (error) { return rejectwithvalue(error.response.data) }: the rejected
\* action's payload.  Without a response, reading error.response.data throws
\* inside the catch block, the thunk rejects without a value and the payload
\* is undefined.
rejectedpayload(err) ==
  IF Truthy(err.response) THEN err.response.data ELSE UNDEFINED

\* apiservice.fetchplayerhistory(arg) rejected with err
HistoryRejected(req, err) ==
  /\ req \in historyrequests
  /\ historyrequests' = historyrequests \ {req}
  /\ Commit(fetchplayerhistory_rejected(State, rejectedpayload(err)))
  /\ lastaction' = Action("draft/fetchplayerhistory/rejected", FALSE)
  /\ UNCHANGED <<effectstatus, connected, snapshotpending, requested, delivered,
                 selecting, clearedupto>>

\* dispatch(clearselectedplayer())
ClearSelection ==
  /\ Truthy(selectedplayerdetails)
  /\ Commit(clearselectedplayer(State))
  /\ lastaction' = Action("draft/clearselectedplayer", FALSE)
  /\ selecting' = NULL
  /\ clearedupto' = requested
  /\ UNCHANGED <<effectstatus, connected, snapshotpending, historyrequests,
                 requested, delivered>>

Requests == [requestid : 1..MaxSelections, arg : PlayerIds]

\* the session as far as the board, the pool and the rosters go
Next ==
  \/ AppEffect
  \/ \E payload \in Snapshots : SnapshotFulfilled(payload)
  \/ \E message \in ErrorMessages : SnapshotRejected(message)
  \/ \E data \in PickEvents : DraftUpdate(data, MaxDelivered)

Spec == Init /\ [][Next]_vars

\* the session with players being selected and inspected
NextSelection ==
  \/ AppEffect
  \/ \E payload \in Snapshots : SnapshotFulfilled(payload)
  \/ \E message \in ErrorMessages : SnapshotRejected(message)
  \/ \E data \in PickEvents : DraftUpdate(data, MaxSelections - requested)
  \/ \E playerid \in PlayerIds : Select(playerid)
  \/ \E req \in Requests : HistoryFulfilled(req)
  \/ \E req \in Requests, err \in HistoryErrors : HistoryRejected(req, err)
  \/ ClearSelection

SpecSelection == Init /\ [][NextSelection]_vars

(***************************************************************************)
(* Properties                                                              *)
(***************************************************************************)
bulk == <<board, teams, availableplayers, currentpickindex>>

\* places of a player in the pool and in the rosters
PoolPlaces(playerid) ==
  {i \in 1..Len(availableplayers) : availableplayers[i].player_id = playerid}
RosterPlaces(playerid) ==
  UNION {UNION {{<<t, pos, i>> :
                   i \in {k \in 1..Len(teams[t].roster[pos]) :
                            teams[t].roster[pos][k].player_id = playerid}} :
                pos \in DOMAIN teams[t].roster} :
         t \in DOMAIN teams}
Partition ==
  \A playerid \in PlayerIds :
    Cardinality(PoolPlaces(playerid)) + Cardinality(RosterPlaces(playerid)) = 1

\* total_picks matches the board length and every slot's team is known
StructurallyComplete ==
  /\ totalpicks = Len(board)
  /\ \A i \in 1..Len(board) : board[i].team_id \in DOMAIN teams

\* C1: once a structurally complete snapshot is installed, after any pick
\* events every known player is in exactly one place: the available pool or
\* one position of one team's roster, once.
C1_PartitionInvariant ==
  (status = "succeeded" /\ StructurallyComplete) => Partition

\* C2: with the snapshot installed, applying any pick event twice gives the
\* state that applying it once gives.
C2_PickIdempotent ==
  status = "succeeded" =>
    \A e \in PickEvents :
      LET once == processpick(State, e).state
          twice == processpick(once, e).state
      IN twice = once

\* C3: currentpickindex never decreases from one state to the next.
C3_MonotonicIndex == [][currentpickindex' >= currentpickindex]_vars

\* C4: when a history request completes (with success or failure) whose
\* player is not the one the latest selection request names, the selected
\* player's detail is left as it was: no history written, loading not
\* cleared, no error set.
C4_SelectionRaceSafety ==
  [][\A req \in historyrequests :
       (/\ req \notin historyrequests'
        /\ selecting # NULL
        /\ req.arg # selecting.arg)
         => selectedplayerdetails' = selectedplayerdetails]_vars

\* C5: a board slot whose player is set keeps that player in every later state.
C5_NoRetraction ==
  [][\A i \in DOMAIN board \cap DOMAIN board' :
       Truthy(board[i].player) => board'[i].player = board[i].player]_vars

\* C6: a draft_update whose pick_number matches no board slot leaves the
\* board, the rosters, the available pool and the pick index unchanged.
C6_OutOfRangeRejected ==
  [][\A e \in PickEvents :
       (findindex(board, e.pick_number) = -1 /\ DraftUpdate(e, MaxDelivered))
         => UNCHANGED bulk]_vars
\* an event without a slot was received against an installed board
C6_Witness ==
  /\ status = "succeeded"
  /\ Len(board) > 0
  /\ lastaction = Action("draft/processpick", TRUE)

\* C7: a draft_update received while the status is not succeeded leaves the
\* board, the rosters, the available pool and the pick index unchanged.
C7_NoPickBeforeSnapshot ==
  [][(status # "succeeded" /\ delivered' # delivered) => UNCHANGED bulk]_vars
\* a draft_update was received while the snapshot was loading or had failed
C7_Witness ==
  /\ status \in {"loading", "failed"}
  /\ lastaction.type = "draft/processpick"
  /\ delivered > 0

\* C8: when the snapshot fetch ends without success the status becomes failed,
\* the error holds the failure's message, and board, teams, pool, pick index
\* and total picks keep their initial empty values.
C8_SnapshotFailure ==
  [][(snapshotpending /\ ~snapshotpending' /\ status' # "succeeded") =>
       /\ status' = "failed"
       /\ error' \in [message : ErrorMessages]
       /\ error'.message # ""
       /\ UNCHANGED <<bulk, totalpicks>>
       /\ board' = <<>> /\ DOMAIN teams' = {} /\ availableplayers' = <<>>
       /\ currentpickindex' = 0 /\ totalpicks' = 0]_vars
\* the snapshot fetch has failed
C8_Witness ==
  /\ status = "failed"
  /\ lastaction.type = "draft/fetchinitialstate/rejected"

\* C9: whenever the status is succeeded the installed snapshot is structurally
\* complete.
C9_SnapshotValidated == status = "succeeded" => StructurallyComplete

\* C10: the status moves only idle -> loading -> succeeded or failed; total
\* picks, the board's shape and the set of teams are written only by the step
\* loading -> succeeded; and once succeeded the status stays succeeded and the
\* board, the pool and the rosters change only through processpick.
C10_SnapshotOnce ==
  [][/\ status' # status =>
          <<status, status'>> \in {<<"idle", "loading">>, <<"loading", "succeeded">>,
                                   <<"loading", "failed">>}
     /\ (totalpicks' # totalpicks \/ Len(board') # Len(board)
           \/ DOMAIN teams' # DOMAIN teams)
          => (status = "loading" /\ status' = "succeeded")
     /\ (status = "succeeded" /\ <<board, teams, availableplayers>>' #
                                   <<board, teams, availableplayers>>)
          => lastaction' = Action("draft/processpick", FALSE)]_vars
\* a pick was applied after the snapshot, and the effect has run again for
\* the succeeded render
C10_Witness ==
  /\ status = "succeeded"
  /\ effectstatus = "succeeded"
  /\ lastaction = Action("draft/processpick", FALSE)

\* C11: when the history fetch of the only selection, seeded with a player of
\* the pool, fails, the detail keeps the seeded player and the empty history, loading becomes false and the error
\* holds what the failure reported.
C11_DetailFetchFailure ==
  [][\A req \in historyrequests, err \in HistoryErrors :
       (/\ requested = 1
        /\ Truthy(selectedplayerdetails)
        /\ Truthy(selectedplayerdetails.player)
        /\ HistoryRejected(req, err))
         => /\ selectedplayerdetails'.player = selectedplayerdetails.player
            /\ selectedplayerdetails'.history = NULL
            /\ selectedplayerdetails'.loading = FALSE
            /\ Truthy(selectedplayerdetails'.error)]_vars

\* selection steps: a selection request, a history fetch completing, a clear
SelectionStep ==
  \/ \E playerid \in PlayerIds : Select(playerid)
  \/ \E req \in Requests : HistoryFulfilled(req)
  \/ \E req \in Requests, err \in HistoryErrors : HistoryRejected(req, err)
  \/ ClearSelection

\* C12: every selection step leaves board, teams, available pool, pick index,
\* total picks, status and the session error unchanged.
C12_SelectionFrame ==
  [][SelectionStep =>
       UNCHANGED <<board, teams, availableplayers, currentpickindex, totalpicks,
                   status, error>>]_vars
\* a history fetch has failed for a selection made against an installed board
C12_Witness ==
  /\ status = "succeeded"
  /\ Len(board) > 0
  /\ Truthy(selectedplayerdetails)
  /\ lastaction.type = "draft/fetchplayerhistory/rejected"

\* C13: a draft_update for an empty slot of a known team with a player of
\* the pool sets that slot's player, removes exactly that player from the
\* pool, appends the player at the end of the team's sequence for the
\* player's position (created when absent), leaves every other slot, team and
\* position as it was, and sets the pick index to the pick number when that
\* is not less than the old index.
C13_NormalPick ==
  [][\A e \in PickEvents :
       LET i == findindex(board, e.pick_number)
           p == e.player
       IN (/\ i # -1
           /\ ~Truthy(board[i].player)
           /\ board[i].team_id \in DOMAIN teams
           /\ PoolPlaces(p.player_id) # {}
           /\ DraftUpdate(e, MaxDelivered))
          => LET t == board[i].team_id
                 old == IF p.position \in DOMAIN teams[t].roster
                          THEN teams[t].roster[p.position] ELSE <<>>
             IN /\ board' = [board EXCEPT ![i].player = p]
                /\ availableplayers' = SelectSeq(availableplayers, LAMBDA q : q # p)
                /\ DOMAIN teams' = DOMAIN teams
                /\ teams'[t].roster[p.position] = Append(old, p)
                /\ \A u \in DOMAIN teams :
                     /\ DOMAIN teams'[u].roster =
                          DOMAIN teams[u].roster \cup (IF u = t THEN {p.position} ELSE {})
                     /\ \A pos \in DOMAIN teams[u].roster :
                          (u # t \/ pos # p.position)
                            => teams'[u].roster[pos] = teams[u].roster[pos]
                /\ (e.pick_number >= currentpickindex
                      => currentpickindex' = e.pick_number)]_vars
\* slot 3 of the started draft was picked: p3 joined p1 in T1's QB sequence
C13_Witness ==
  /\ status = "succeeded"
  /\ Len(board) = 3
  /\ delivered = 1
  /\ lastaction = Action("draft/processpick", FALSE)
  /\ board[3].player = P3
  /\ teams["T1"].roster["QB"] = << P1, P3 >>
  /\ availableplayers = << P2 >>
  /\ currentpickindex = 3

\* C14: a draft_update for an empty slot whose player is no longer in the
\* pool leaves the board, the rosters and the pool unchanged.
C14_AlreadyDraftedNoOp ==
  [][\A e \in PickEvents :
       LET i == findindex(board, e.pick_number)
       IN (/\ status = "succeeded"
           /\ i # -1
           /\ ~Truthy(board[i].player)
           /\ PoolPlaces(e.player.player_id) = {}
           /\ DraftUpdate(e, MaxDelivered))
          => UNCHANGED <<board, teams, availableplayers>>]_vars

\* C15: a draft_update for a slot whose team_id is not a key of teams sets
\* the slot's player and removes the player from the pool, and no roster
\* changes.
C15_UnknownTeam ==
  [][\A e \in PickEvents :
       LET i == findindex(board, e.pick_number)
       IN (/\ i # -1
           /\ board[i].team_id \notin DOMAIN teams
           /\ DraftUpdate(e, MaxDelivered))
          => /\ board'[i].player = e.player
             /\ availableplayers' =
                  SelectSeq(availableplayers,
                            LAMBDA q : q.player_id # e.player.player_id)
             /\ teams' = teams]_vars
\* the slot of the unlisted team was picked
C15_Witness ==
  /\ status = "succeeded"
  /\ Len(board) = 2
  /\ board[2].team_id \notin DOMAIN teams
  /\ Truthy(board[2].player)
  /\ Len(availableplayers) = 2
  /\ lastaction = Action("draft/processpick", FALSE)

\* C16: right after a selection request for a player who is in the pool or
\* in a roster, the detail holds that player's record, no history, and
\* loading = true.
C16_SelectionSeeding ==
  [][\A playerid \in PlayerIds :
       (/\ PoolPlaces(playerid) # {} \/ RosterPlaces(playerid) # {}
        /\ Select(playerid))
         => /\ Truthy(selectedplayerdetails'.player)
            /\ selectedplayerdetails'.player.player_id = playerid
            /\ selectedplayerdetails'.history = NULL
            /\ selectedplayerdetails'.loading]_vars

\* C17: the completion (success or failure) of a history request started
\* before the latest clear leaves the selected player's detail as it is:
\* empty if nothing was selected since, the new selection's otherwise.
C17_ClearCancelsFetch ==
  [][\A req \in historyrequests :
       (req \notin historyrequests' /\ req.requestid <= clearedupto)
         => selectedplayerdetails' = selectedplayerdetails]_vars

\* C20: a detail that is loading has no history.
C20_LoadingHasNoHistory ==
  (Truthy(selectedplayerdetails) /\ selectedplayerdetails.loading)
    => selectedplayerdetails.history = NULL
\* a second selection is loading after the first one's fetch completed
C20_Witness ==
  /\ Truthy(selectedplayerdetails)
  /\ selectedplayerdetails.loading
  /\ requested = 2
  /\ Cardinality(historyrequests) = 1
  /\ clearedupto = 0

\* a player occupies a board slot
OnBoard(playerid) ==
  \E i \in 1..Len(board) :
    Truthy(board[i].player) /\ board[i].player.player_id = playerid

\* number of roster entries over all teams
RosterEntries ==
  Cardinality(UNION {RosterPlaces(playerid) \X {playerid} : playerid \in PlayerIds})

\* C18: with a structurally complete snapshot installed, in every state a
\* player occupies a board slot exactly when the player is not in the pool.
C18_BoardPoolCoupled ==
  (status = "succeeded" /\ StructurallyComplete) =>
    \A playerid \in PlayerIds : OnBoard(playerid) <=> PoolPlaces(playerid) = {}

\* C19: no draft_update changes the status or the session error, and every
\* draft_update whose slot exists, whatever was received before it, is
\* applied: the slot holds its player, the pool no longer does, and the
\* player is the last one of the owning team's sequence for the position when
\* the team is known.
C19_PickErrorsIsolated ==
  [][\A e \in PickEvents :
       DraftUpdate(e, MaxDelivered) =>
         /\ UNCHANGED <<status, error>>
         /\ LET i == findindex(board, e.pick_number)
                p == e.player
            IN i # -1 =>
                 /\ board'[i].player = p
                 /\ \A k \in 1..Len(availableplayers') :
                      availableplayers'[k].player_id # p.player_id
                 /\ board[i].team_id \in DOMAIN teams =>
                      LET r == teams'[board[i].team_id].roster
                      IN /\ p.position \in DOMAIN r
                         /\ r[p.position][Len(r[p.position])] = p]_vars
\* two events were received against the fresh draft and the second one was
\* applied, while one slot is filled and one roster entry exists: the first
\* event was not applied
C19_Witness ==
  /\ status = "succeeded"
  /\ StructurallyComplete
  /\ Len(board) = 2
  /\ delivered = 2
  /\ lastaction = Action("draft/processpick", FALSE)
  /\ Cardinality({i \in 1..Len(board) : Truthy(board[i].player)}) = 1
  /\ RosterEntries = 1
  /\ Len(availableplayers) = 2

=============================================================================
